---- MODULE Spec2Model ----
(***************************************************************************)
(* Lucid offline-first synchronisation layer: the upload queue             *)
(* (UploadQueue over a LucidStore) and the QueueProcessor that drains it   *)
(* through a pluggable upload function.                                    *)
(*                                                                         *)
(* Every asynchronous function is cut at its await points: a loop of       *)
(* QueueProcessor.start() is a process whose pc names the promise it is    *)
(* suspended on, and one action runs the code between two suspensions.     *)
(* A call of start() after stop() begins a new loop while an earlier one   *)
(* may still be suspended, so the processor owns a set of loops.           *)
(***************************************************************************)
EXTENDS Integers, Sequences, FiniteSets, TLC

VARIABLES
    clock,      \* Date.now()
    nextId,     \* the next key generateId() issues: keys are unique, named here in issue order
    store,      \* the persisted CRUD queue of the LucidStore: a set of entries keyed by id
    listeners,  \* UploadQueue.listeners: the loops whose waitForNewEntries callback is registered
    running,    \* QueueProcessor.running
    abortCtl,   \* QueueProcessor.abortController: "none" (null), "fresh" or "aborted"
    connector,  \* which upload function the processor was constructed with
    batchSize,  \* options.batchSize
    pc,         \* per loop: the suspension point of that invocation of start()
    batch,      \* per loop: entries of the CrudBatch held by the loop (<<>> when none)
    retries,    \* per loop: processBatch's local counter
    uploads,    \* per loop: uploadFn invocations for the held batch (history)
    completes,  \* per loop: batch.complete() calls for the held batch (history)
    cfails,     \* per loop: batch.complete() calls for the held batch that rejected (history)
    first,      \* per loop: entries passed to the first uploadFn invocation (history)
    passed,     \* per loop: entries passed to the latest uploadFn invocation (history)
    schema,     \* options.schema: the category of each table ("none" when it declares none)
    tables,     \* this.tables: the list of tables a pass iterates
    manager,    \* which sync manager this is: "trpc" (TrpcSyncManager) or "supabase" (SupabaseSyncManager)
    intervalId, \* sync manager's intervalId: 0 (null) or the handle of a timer
    timers,     \* the setInterval timers of the sync manager that the runtime holds active
    subscriptions, \* sync manager's subscriptions / realtimeChannels map: table -> handle, 0 when absent
    openSubs,   \* the realtime subscriptions open at the connector: pairs <<table, handle>>
    isSyncing,  \* TrpcSyncManager.isSyncing
    nextStart,  \* number of the next start() call of the sync manager; names the handles it creates
    stopped,    \* stop() of the sync manager was called and start() was not called since (history)
    ppc,        \* per syncAll pass: the promise the pass is suspended on
    ptab,       \* per pass: index in the tables list of the table being synced
    pstart,     \* per pass: the start() call awaiting the pass, 0 when none, Direct when the pass is one syncTable call
    psince,     \* per pass: the watermark read by syncTable, 0 for null
    prows,      \* per pass: the rows the backend returned
    pnow,       \* per pass: the Date.now() passed to setLastSyncedAt
    backend,    \* per table: the rows of the backend
    local,      \* per table: the rows of the local store
    lastSyncedAt, \* per table: the persisted watermark, 0 for null
    inbox,      \* per table: the changes whose realtime callback runs, suspended on its store call
    rejected,   \* a realtime callback returned a promise that rejected
    rtInPass,   \* a realtime callback's store call resolved while a pass was in flight (history)
    ltable,     \* one table of the local store as the store keeps it: rows with their _updatedAt stamp
    lastRows,   \* <<rows>> of the latest upsertBatch call on ltable, Null before the first (history)
    repeated,   \* the latest upsertBatch call on ltable had the rows of the call before it (history)
    appSubs,    \* UploadQueue.listeners: the callbacks the application registered through subscribe
    invoked,    \* per application callback: the number of times it was invoked (history)
    observed,   \* the calls whose outcomes are recorded: a subset of {"enqueue", "wait", "upload"} (history)
    resumed,    \* the ways waitForNewEntries calls have resolved so far, where observed (history)
    returned,   \* how the latest enqueue call settled for its caller, where observed (history)
    sent,       \* per loop: ids of the entries whose mutation call succeeded in the latest uploadData call, where observed (history)
    backendLog, \* ids of the entries whose mutation calls succeeded, in the order of the calls, where observed (history)
    pendingCount, \* <<n>>: what the latest getPendingCount call returned, Null before the first
    pending,    \* <<b>>: what the latest hasPending call returned, Null before the first
    spc,        \* LucidProvider.sync(): the promise the call is suspended on, "idle" when none is in progress
    sbatch,     \* the entries of the batch sync() holds (<<>> when none)
    syncError   \* syncStatus.error is not null

procAll == <<nextId, store, listeners, running, abortCtl, connector, batchSize,
             pc, batch, retries, uploads, completes, cfails, first, passed, sent>>

mgrVars == <<manager, schema, tables, intervalId, timers, subscriptions, openSubs, isSyncing, nextStart, stopped>>
passVars == <<ppc, ptab, pstart, psince, prows, pnow>>
dataVars == <<backend, local, lastSyncedAt>>
rtVars == <<inbox, rejected, rtInPass>>
storeVars == <<ltable, lastRows, repeated>>
appVars == <<appSubs, invoked, returned, resumed, pendingCount, pending>>
logVars == <<observed, backendLog>>
provVars == <<spc, sbatch, syncError>>
apiVars == <<storeVars, appVars, logVars, provVars>>
pullVars == <<mgrVars, passVars, dataVars, rtVars>>
syncVars == <<pullVars, apiVars>>

vars == <<clock, procAll, syncVars>>

queueVars == <<clock, nextId, store>>
procVars == <<running, abortCtl, connector, batchSize>>
histVars == <<uploads, completes, cfails, first, passed, sent>>

----------------------------------------------------------------------------
(* Bounds and configuration *)

MaxLoops == 2
MaxEnqueue == 2
MaxClock == 2
MaxLimit == 3
MaxBatchSize == 2
MaxRetries == 2
MaxPasses == 2
MaxStarts == 2
MaxEvents == 2
MaxQueued == 101
MaxLog == 4

Loops == 1..MaxLoops
Tables == {"orders", "cart"}
Connectors == {"plain", "trpc"}

\* The callbacks the application registers on the queue
AppListeners == {"a", "b"}

Min(a, b) == IF a < b THEN a ELSE b

----------------------------------------------------------------------------
(* LucidStore queue operations (LocalForageStore) *)

\* The orders in which store.iterate may visit the queue's items: the order
\* depends on the localforage driver and on the keys, which end in a random
\* suffix, so every order is possible.
IterateOrders(q) ==
    {s \in [1..Cardinality(q) -> q] : \A i, j \in 1..Cardinality(q) : i # j => s[i] # s[j]}

RECURSIVE SortFrom(_, _)

\* The entries of s whose timestamp is in ts, by increasing timestamp, those
\* of one timestamp in the order they have in s
SortFrom(s, ts) ==
    IF ts = {}
    THEN <<>>
    ELSE LET t == CHOOSE x \in ts : \A y \in ts : x <= y
         IN  SelectSeq(s, LAMBDA e : e.timestamp = t) \o SortFrom(s, ts \ {t})

\* entries.sort((a, b) => a.timestamp - b.timestamp): the sort is stable, so
\* entries of the same timestamp stay in the order iterate visited them
SortByTimestamp(s) == SortFrom(s, {s[i].timestamp : i \in 1..Len(s)})

\* entries.slice(0, limit)
Slice(s, limit) == SubSeq(s, 1, Min(limit, Len(s)))

\* Mutant: getQueuedCrud without the sort
getQueuedCrudUnsorted(ord, limit) == Slice(ord, limit)

\* getQueuedCrud(limit), given the order ord in which iterate visited the items
getQueuedCrud(ord, limit) == Slice(SortByTimestamp(ord), limit)

\* Mutant: removeFromQueue that clears the queue store
removeFromQueueClear(q, ids, k) == IF k = Len(ids) THEN {} ELSE q

\* removeFromQueue(ids) that removed the first k ids; it rejects when k < Len(ids)
removeFromQueue(q, ids, k) ==
    {e \in q : \A i \in 1..k : ids[i] # e.id}

\* getQueuedCrud(limit = 100): the limit of a call that passes none
DefaultLimit == 100

\* Mutant: queueCrud that stores the entry and then rejects
queueCrudPartial(q, entry, ok) == q \cup {entry}

\* queueCrud(entry): the queue store it leaves; ok is whether setItem resolved
queueCrud(q, entry, ok) == IF ok THEN q \cup {entry} ELSE q

\* entries.map((e) => e.id)
Ids(entries) == [i \in 1..Len(entries) |-> entries[i].id]

----------------------------------------------------------------------------
(* UploadQueue *)

Null == <<>>

\* getBatch(limit): null when the store returned no entry, else the entries
getBatch(ord, limit) ==
    LET entries == getQueuedCrud(ord, limit)
    IN  IF Len(entries) = 0 THEN Null ELSE entries

\* batch.complete() whose removeFromQueue removed k ids: the queue store it leaves
complete(q, entries, k) == removeFromQueue(q, Ids(entries), k)

\* Mutant: abort() that behaves as complete()
abortAsComplete(q, entries) ==
    [store |-> {e \in q : \A i \in 1..Len(entries) : entries[i] # e}, notify |-> TRUE]

\* batch.abort(): the queue store it leaves, and whether it calls notifyListeners
abort(q, entries) == [store |-> q, notify |-> FALSE]

\* Mutant: notifyListeners that calls every callback ever known
InvokedAll(inv, subs) == [a \in AppListeners |-> inv[a] + 1]

\* notifyListeners(): this.listeners.forEach((cb) => cb()) over the
\* application's callbacks
Invoked(inv, subs) ==
    [a \in AppListeners |-> IF a \in subs THEN inv[a] + 1 ELSE inv[a]]

\* Mutant: the timeout of waitForNewEntries leaves the callback registered
UnsubscribedLeak(ls, l) == ls

\* unsubscribe(): this.listeners.delete(callback)
Unsubscribed(ls, l) == ls \ {l}

\* The schema the upload connector was created with: table -> category
\* ("none" when the table declares none); a table may be missing from it
ConnectorSchema ==
    [orders |-> "none", cart |-> "none", drafts |-> "local_only"]

\* Mutant: uploadData skips no entry
SendableAll(entries) == entries

\* The entries of a batch that uploadData does not skip: those whose table is
\* in the connector's schema and passes shouldSync
Sendable(entries) ==
    SelectSeq(entries,
              LAMBDA e : /\ e.table \in DOMAIN ConnectorSchema
                         /\ ConnectorSchema[e.table] # "local_only")

\* Mutant: uploadData goes on after a mutation call failed
SentPastFailure(ids, k) == ids

\* The entries uploadData sent when its k + 1st mutation call was the first
\* to fail, or all of them when none failed: for (const entry of
\* batch.entries), each call awaited, throw on the first error
Sent(ids, k) == SubSeq(ids, 1, k)

\* The mutation calls of an uploadData call reach the backend in order
Logged(ids) ==
    IF "upload" \in observed
    THEN /\ Len(backendLog) + Len(ids) <= MaxLog
         /\ backendLog' = backendLog \o ids
    ELSE UNCHANGED backendLog

\* No enqueue call was made yet
NoCall == [status |-> "none", id |-> 0, table |-> ""]

\* The ways waitForNewEntries calls resolved, after the calls of the loops ls
\* resolved by way
Resumed(ls, way) ==
    IF "wait" \notin observed \/ ls = {} THEN resumed ELSE resumed \cup {way}

\* The outcome o of an enqueue call, recorded where the caller is observed
Outcome(o) == IF "enqueue" \in observed THEN o ELSE returned

----------------------------------------------------------------------------
(* QueueProcessor helpers *)

\* Mutant: the loop condition ignores running
LoopCheckAlways(run) == "getBatch"

\* while (this.running): the loop calls getBatch again or start() returns
LoopCheck(run) == IF run THEN "getBatch" ELSE "idle"

\* Mutant: off-by-one retry condition
RetryAllowedInclusive(r) == r <= MaxRetries

\* while (retries < this.options.maxRetries)
RetryAllowed(r) == r < MaxRetries

\* Mutant: each retry fetches the head of the queue again
AttemptEntriesRefetched(l, q) ==
    getQueuedCrud(CHOOSE ord \in IterateOrders(q) : TRUE, batchSize)

\* The entries handed to uploadFn on an attempt of processBatch
AttemptEntries(l, q) == batch[l]

InFlight == {"upload", "connComplete"}

\* notifyListeners(): every registered waitForNewEntries callback unsubscribes
\* and resolves; the woken loop re-checks running and calls getBatch
Woken(p) ==
    [l \in Loops |-> IF l \in listeners THEN LoopCheck(running) ELSE p[l]]

ResetLocals(ls) ==
    /\ batch' = [l \in Loops |-> IF l \in ls THEN Null ELSE batch[l]]
    /\ retries' = [l \in Loops |-> IF l \in ls THEN 0 ELSE retries[l]]
    /\ uploads' = [l \in Loops |-> IF l \in ls THEN 0 ELSE uploads[l]]
    /\ completes' = [l \in Loops |-> IF l \in ls THEN 0 ELSE completes[l]]
    /\ cfails' = [l \in Loops |-> IF l \in ls THEN 0 ELSE cfails[l]]
    /\ first' = [l \in Loops |-> IF l \in ls THEN Null ELSE first[l]]
    /\ passed' = [l \in Loops |-> IF l \in ls THEN Null ELSE passed[l]]
    /\ sent' = [l \in Loops |-> IF l \in ls THEN <<>> ELSE sent[l]]

UnchangedLocals == UNCHANGED <<batch, retries, histVars>>

----------------------------------------------------------------------------
(* Sync managers (TrpcSyncManager, SupabaseSyncManager): the periodic pull   *)
(* of every synced table and the schedule of timers and realtime             *)
(* subscriptions. A syncAll pass is a process cut at its awaits; passes run  *)
(* concurrently when nothing prevents it.                                    *)

Managers == {"trpc", "supabase"}

\* The tables of the application's schema, in Object.keys order
SchemaKeys == <<"products", "tags", "drafts">>

SyncTables == {SchemaKeys[i] : i \in 1..Len(SchemaKeys)}

\* The schema the application declares: products names no category, tags
\* is realtime and drafts is local_only
DefaultSchema == [products |-> "none", tags |-> "realtime", drafts |-> "local_only"]

\* The same schema with products declared static
StaticSchema == [DefaultSchema EXCEPT !["products"] = "static"]

\* getTableCategory(tableSchema): tableSchema.category?.category
getTableCategory(t) == schema[t]

\* shouldSync(tableSchema)
shouldSync(t) == getTableCategory(t) # "local_only"

\* this.tables when options.tables is absent: the schema's keys that shouldSync keeps
DefaultTables(sch) == SelectSeq(SchemaKeys, LAMBDA t : sch[t] # "local_only")

\* options.tables given by the application
ExplicitTables == <<"drafts", "tags">>

\* Whether syncTable(t) goes past its early returns: TrpcSyncManager checks
\* shouldSync, SupabaseSyncManager only that the schema has the table
Pulled(t) == manager = "supabase" \/ shouldSync(t)

\* The index after i of the next table of the list that syncTable pulls;
\* syncTable returns without an await for the others. 0 when there is none
NextTable(i) ==
    LET later == {j \in (i + 1)..Len(tables) : Pulled(tables[j])}
    IN IF later = {} THEN 0 ELSE CHOOSE j \in later : \A k \in later : j <= k

Passes == 1..MaxPasses
RowIds == {1}

\* Mutant: a stale time is written as the watermark
DateNowStale == clock - 1

\* Date.now()
DateNow == clock

\* LucidStore.delete(table, id)
delete(tbl, id) == {r \in tbl : r.id # id}

\* Mutant: a pull that received no row returns without a watermark
AfterFetchSkipsEmpty(rows) == IF rows = {} THEN "skip" ELSE "upsert"

\* What a pull calls once its rows are in: upsertBatch, or setLastSyncedAt at
\* once when there is none
AfterFetch(rows) == IF rows = {} THEN "setLast" ELSE "upsert"

\* Mutant: the fetch ignores the watermark
QueryUnscoped(tbl, since) == tbl

\* The backend's answer to a fetch scoped by since (0: no filter)
Query(tbl, since) ==
    IF since = 0 THEN tbl ELSE {r \in tbl : r.updated_at > since}

\* Mutant: upsertBatch that replaces the table by the rows
upsertBatchReplace(tbl, rows) == rows

\* Mutant: upsertBatch that resolves without writing
upsertBatchDropped(tbl, rows) == tbl

\* store.upsertBatch(table, rows): the table it leaves
upsertBatch(tbl, rows) ==
    {r \in tbl : \A n \in rows : n.id # r.id} \cup rows

\* Mutant: upsertBatch that adds the rows without replacing those of the same id
upsertBatchStampedAdded(tbl, rows, now) ==
    tbl \cup {[id |-> n.id, updated_at |-> n.updated_at, _updatedAt |-> now, _synced |-> TRUE] :
                n \in rows}

\* store.upsertBatch(table, rows) as the store keeps the rows: each row is
\* set under its id together with _updatedAt: Date.now() and _synced: true
upsertBatchStamped(tbl, rows, now) ==
    {r \in tbl : \A n \in rows : n.id # r.id}
        \cup {[id |-> n.id, updated_at |-> n.updated_at, _updatedAt |-> now, _synced |-> TRUE] :
                  n \in rows}

\* The rows of a stored table without the fields the store adds
Data(tbl) == {[id |-> r.id, updated_at |-> r.updated_at] : r \in tbl}

\* Mutant: syncAll without the re-entrancy guard
SkipSyncAllNever == FALSE

\* if (this.isSyncing) return, which only TrpcSyncManager.syncAll has
SkipSyncAll == manager = "trpc" /\ isSyncing

\* The caller of a syncTable call that is not made by syncAll
Direct == -1

\* The table a pass is syncing
TableOf(p) == tables[ptab[p]]

\* Mutant: the loop of syncAll ends after any table
PassDoneEarly(p) == TRUE

\* The for loop of syncAll has no table left to pull after the pass's table
PassDone(p) == NextTable(ptab[p]) = 0

ActivePasses == {p \in Passes : ppc[p] # "idle"}

\* Nothing is observed yet of the store and queue interfaces
ApiIdle ==
    /\ ltable = {}
    /\ lastRows = <<>>
    /\ repeated = FALSE
    /\ spc = "idle"
    /\ sbatch = Null
    /\ syncError = FALSE
    /\ appSubs = {}
    /\ invoked = [a \in AppListeners |-> 0]
    /\ returned = NoCall
    /\ resumed = {}
    /\ observed = {}
    /\ backendLog = <<>>
    /\ pendingCount = <<>>
    /\ pending = <<>>

\* The state after the constructor of a sync manager
SyncConstructed ==
    /\ intervalId = 0
    /\ timers = {}
    /\ subscriptions = [t \in SyncTables |-> 0]
    /\ openSubs = {}
    /\ isSyncing = FALSE
    /\ nextStart = 1
    /\ stopped = FALSE
    /\ ppc = [p \in Passes |-> "idle"]
    /\ ptab = [p \in Passes |-> 1]
    /\ pstart = [p \in Passes |-> 0]
    /\ psince = [p \in Passes |-> 0]
    /\ prows = [p \in Passes |-> {}]
    /\ pnow = [p \in Passes |-> 0]
    /\ backend = [t \in SyncTables |-> {}]
    /\ local = [t \in SyncTables |-> {}]
    /\ lastSyncedAt = [t \in SyncTables |-> 0]
    /\ inbox = [t \in SyncTables |-> <<>>]
    /\ rejected = FALSE
    /\ rtInPass = FALSE

----------------------------------------------------------------------------
Init ==
    /\ clock = 1
    /\ nextId = 1
    /\ store = {}
    /\ listeners = {}
    /\ running = FALSE
    /\ abortCtl = "none"
    /\ connector \in Connectors
    /\ batchSize \in 1..MaxBatchSize
    /\ pc = [l \in Loops |-> "idle"]
    /\ batch = [l \in Loops |-> Null]
    /\ retries = [l \in Loops |-> 0]
    /\ uploads = [l \in Loops |-> 0]
    /\ completes = [l \in Loops |-> 0]
    /\ cfails = [l \in Loops |-> 0]
    /\ first = [l \in Loops |-> Null]
    /\ passed = [l \in Loops |-> Null]
    /\ sent = [l \in Loops |-> <<>>]
    /\ manager = "trpc"
    /\ schema = DefaultSchema
    /\ tables = DefaultTables(schema)
    /\ SyncConstructed
    /\ ApiIdle

\* Time passes
Tick ==
    /\ clock < MaxClock
    /\ clock' = clock + 1
    /\ UNCHANGED <<nextId, store, listeners, procVars, pc, batch, retries, histVars>>
    /\ UNCHANGED syncVars

\* UploadQueue.enqueue(table, operation, data); ok is the outcome of store.queueCrud
Enqueue(table, ok) ==
    /\ nextId <= MaxEnqueue
    /\ store' = queueCrud(store, [id |-> nextId, table |-> table, timestamp |-> clock], ok)
    /\ IF ok
       THEN /\ nextId' = nextId + 1
            /\ pc' = Woken(pc)
            /\ listeners' = {}
            /\ resumed' = Resumed(listeners, "notified")
            /\ invoked' = Invoked(invoked, appSubs)
            /\ returned' = Outcome([status |-> "resolved", id |-> nextId, table |-> table])
       ELSE /\ returned' = Outcome([status |-> "rejected", id |-> 0, table |-> table])
            /\ UNCHANGED <<nextId, pc, listeners, invoked, resumed>>
    /\ UNCHANGED <<clock, procVars, batch, retries, histVars>>
    /\ UNCHANGED <<pullVars, storeVars, provVars, logVars, appSubs, pendingCount, pending>>

\* QueueProcessor.start(): returns at once when running, else runs the loop up
\* to its first await, the getBatch call
Start ==
    IF running
    THEN UNCHANGED vars
    ELSE /\ \E l \in Loops :
              /\ pc[l] = "idle"
              /\ \A k \in Loops : pc[k] = "idle" => l <= k
              /\ pc' = [pc EXCEPT ![l] = "getBatch"]
         /\ running' = TRUE
         /\ abortCtl' = "fresh"
         /\ UNCHANGED <<queueVars, listeners, connector, batchSize, batch, retries, histVars>>
         /\ UNCHANGED syncVars

\* QueueProcessor.stop()
Stop ==
    /\ running' = FALSE
    /\ abortCtl' = IF abortCtl = "none" THEN "none" ELSE "aborted"
    /\ UNCHANGED <<queueVars, listeners, connector, batchSize, pc, batch, retries, histVars>>
    /\ UNCHANGED syncVars

\* Mutant: the catch block of start() always breaks
CatchInStartBreak == "idle"

\* The catch block of start(): break when the signal is aborted, else pause
CatchInStart == IF abortCtl = "aborted" THEN "idle" ELSE "errorPause"

\* store.getQueuedCrud(batchSize), awaited inside queue.getBatch, settles; ok is
\* its outcome. The entries it read reach the loop in a later step, so an
\* enqueue can run between the read and the loop's reaction to it.
GetQueuedCrudSettle(l, ok) ==
    /\ pc[l] = "getBatch"
    /\ IF ~ok
       THEN /\ pc' = [pc EXCEPT ![l] = CatchInStart]
            /\ UNCHANGED batch
       ELSE \E ord \in IterateOrders(store) :
              /\ pc' = [pc EXCEPT ![l] = "gotBatch"]
              /\ batch' = [batch EXCEPT ![l] = getBatch(ord, batchSize)]
    /\ UNCHANGED <<queueVars, listeners, procVars, retries, histVars>>
    /\ UNCHANGED syncVars

\* queue.getBatch(batchSize) resolves in the loop. With no batch the loop
\* enters waitForNewEntries and registers its callback; with a batch
\* processBatch starts and makes its first uploadFn call.
GetBatchReturn(l) ==
    /\ pc[l] = "gotBatch"
    /\ IF batch[l] = Null
       THEN /\ pc' = [pc EXCEPT ![l] = "wait"]
            /\ listeners' = listeners \cup {l}
            /\ UNCHANGED <<retries, histVars>>
       ELSE /\ pc' = [pc EXCEPT ![l] = "upload"]
            /\ retries' = [retries EXCEPT ![l] = 0]
            /\ uploads' = [uploads EXCEPT ![l] = 1]
            /\ first' = [first EXCEPT ![l] = batch[l]]
            /\ passed' = [passed EXCEPT ![l] = batch[l]]
            /\ sent' = [sent EXCEPT ![l] = <<>>]
            /\ completes' = [completes EXCEPT ![l] = 0]
            /\ cfails' = [cfails EXCEPT ![l] = 0]
            /\ UNCHANGED listeners
    /\ UNCHANGED <<queueVars, procVars, batch>>
    /\ UNCHANGED syncVars

\* Mutant: waitForNewEntries without its timeout
WaitNoTimeout(l) == pc[l] = "wait" /\ FALSE /\ UNCHANGED vars

\* The 5000 ms timer of waitForNewEntries fires while the callback is registered
WaitTimeout(l) ==
    /\ pc[l] = "wait"
    /\ listeners' = Unsubscribed(listeners, l)
    /\ resumed' = Resumed({l}, "timeout")
    /\ pc' = [pc EXCEPT ![l] = LoopCheck(running)]
    /\ UNCHANGED <<queueVars, procVars, batch, retries, histVars>>
    /\ UNCHANGED <<pullVars, storeVars, provVars, logVars, appSubs, invoked, returned, pendingCount, pending>>

\* The catch block of processBatch: count the failure, then back off, or leave
\* the while loop and call batch.abort()
CatchInProcessBatch(l) ==
    /\ retries' = [retries EXCEPT ![l] = @ + 1]
    /\ pc' = [pc EXCEPT ![l] = IF RetryAllowed(retries[l] + 1) THEN "backoff" ELSE "abort"]

\* uploadFn(batch) settles on the backend's side; ok is whether every entry
\* was delivered. A plain upload function returns and processBatch calls
\* batch.complete(); the tRPC uploadData calls batch.complete() itself first.
UploadReturn(l, ok) ==
    /\ pc[l] = "upload"
    /\ IF ok
       THEN /\ pc' = [pc EXCEPT ![l] = IF connector = "trpc" THEN "connComplete" ELSE "complete"]
            /\ completes' = [completes EXCEPT ![l] = @ + 1]
            /\ UNCHANGED retries
       ELSE /\ CatchInProcessBatch(l)
            /\ UNCHANGED completes
    /\ \E k \in 0..Len(Sendable(passed[l])) :
          /\ ok <=> k = Len(Sendable(passed[l]))
          /\ Logged(Sent(Ids(Sendable(passed[l])), k))
          /\ sent' = [sent EXCEPT ![l] =
                        IF "upload" \in observed THEN Sent(Ids(Sendable(passed[l])), k) ELSE @]
    /\ UNCHANGED <<queueVars, listeners, procVars, batch, uploads, cfails, first, passed>>
    /\ UNCHANGED <<pullVars, storeVars, provVars, appVars, observed>>

\* batch.complete() called inside the tRPC uploadData settles after removing
\* k ids; when it rejects, uploadData rethrows into processBatch's catch; when
\* it resolves, uploadData returns and processBatch calls batch.complete()
ConnCompleteReturn(l, k) ==
    /\ pc[l] = "connComplete"
    /\ k \in 0..Len(batch[l])
    /\ store' = complete(store, batch[l], k)
    /\ IF k = Len(batch[l])
       THEN /\ pc' = [Woken(pc) EXCEPT ![l] = "complete"]
            /\ listeners' = {}
            /\ resumed' = Resumed(listeners, "notified")
            /\ invoked' = Invoked(invoked, appSubs)
            /\ completes' = [completes EXCEPT ![l] = @ + 1]
            /\ UNCHANGED <<retries, cfails>>
       ELSE /\ CatchInProcessBatch(l)
            /\ cfails' = [cfails EXCEPT ![l] = @ + 1]
            /\ UNCHANGED <<listeners, invoked, resumed, completes>>
    /\ UNCHANGED <<clock, nextId, procVars, batch, uploads, first, passed, sent>>
    /\ UNCHANGED <<pullVars, storeVars, provVars, logVars, appSubs, returned, pendingCount, pending>>

\* batch.complete() called by processBatch settles after removing k ids; when
\* it resolves, processBatch returns and the loop sleeps batchDelay
CompleteReturn(l, k) ==
    /\ pc[l] = "complete"
    /\ k \in 0..Len(batch[l])
    /\ store' = complete(store, batch[l], k)
    /\ IF k = Len(batch[l])
       THEN /\ pc' = [Woken(pc) EXCEPT ![l] = "batchDelay"]
            /\ listeners' = {}
            /\ resumed' = Resumed(listeners, "notified")
            /\ invoked' = Invoked(invoked, appSubs)
            /\ UNCHANGED <<retries, cfails>>
       ELSE /\ CatchInProcessBatch(l)
            /\ cfails' = [cfails EXCEPT ![l] = @ + 1]
            /\ UNCHANGED <<listeners, invoked, resumed>>
    /\ UNCHANGED <<clock, nextId, procVars, batch, uploads, completes, first, passed, sent>>
    /\ UNCHANGED <<pullVars, storeVars, provVars, logVars, appSubs, returned, pendingCount, pending>>

\* sleep(retryDelay * retries) ends: the next attempt calls uploadFn
BackoffDone(l) ==
    /\ pc[l] = "backoff"
    /\ pc' = [pc EXCEPT ![l] = "upload"]
    /\ uploads' = [uploads EXCEPT ![l] = @ + 1]
    /\ passed' = [passed EXCEPT ![l] = AttemptEntries(l, store)]
    /\ UNCHANGED <<queueVars, listeners, procVars, batch, retries, completes, cfails, first, sent>>
    /\ UNCHANGED syncVars

\* batch.abort() settles and processBatch throws 'Max retries reached'
AbortReturn(l) ==
    /\ pc[l] = "abort"
    /\ store' = abort(store, batch[l]).store
    /\ pc' = [(IF abort(store, batch[l]).notify THEN Woken(pc) ELSE pc) EXCEPT ![l] = CatchInStart]
    /\ listeners' = IF abort(store, batch[l]).notify THEN {} ELSE listeners
    /\ invoked' = IF abort(store, batch[l]).notify THEN Invoked(invoked, appSubs) ELSE invoked
    /\ resumed' = IF abort(store, batch[l]).notify THEN Resumed(listeners, "notified") ELSE resumed
    /\ IF CatchInStart = "idle" THEN ResetLocals({l}) ELSE UnchangedLocals
    /\ UNCHANGED <<clock, nextId, procVars>>
    /\ UNCHANGED <<pullVars, storeVars, provVars, logVars, appSubs, returned, pendingCount, pending>>

\* sleep(batchDelay) or sleep(retryDelay) in start() ends; the loop re-checks running
SleepDone(l) ==
    /\ pc[l] \in {"batchDelay", "errorPause"}
    /\ pc' = [pc EXCEPT ![l] = LoopCheck(running)]
    /\ ResetLocals({l})
    /\ UNCHANGED <<queueVars, listeners, procVars>>
    /\ UNCHANGED syncVars

Next ==
    \/ Tick
    \/ \E t \in Tables, ok \in BOOLEAN : Enqueue(t, ok)
    \/ Start
    \/ Stop
    \/ \E l \in Loops, ok \in BOOLEAN : GetQueuedCrudSettle(l, ok)
    \/ \E l \in Loops : GetBatchReturn(l)
    \/ \E l \in Loops : WaitTimeout(l)
    \/ \E l \in Loops, ok \in BOOLEAN : UploadReturn(l, ok)
    \/ \E l \in Loops, k \in 0..MaxBatchSize : ConnCompleteReturn(l, k)
    \/ \E l \in Loops, k \in 0..MaxBatchSize : CompleteReturn(l, k)
    \/ \E l \in Loops : BackoffDone(l)
    \/ \E l \in Loops : AbortReturn(l)
    \/ \E l \in Loops : SleepDone(l)

Spec == Init /\ [][Next]_vars

\* queue.subscribe(callback) by the application: this.listeners.add(callback)
Subscribe(a) ==
    /\ appSubs' = appSubs \cup {a}
    /\ UNCHANGED <<clock, procAll, pullVars, storeVars, provVars, logVars, invoked, returned, resumed, pendingCount, pending>>

\* The function subscribe returned is called: this.listeners.delete(callback)
Unsubscribe(a) ==
    /\ appSubs' = Unsubscribed(appSubs, a)
    /\ UNCHANGED <<clock, procAll, pullVars, storeVars, provVars, logVars, invoked, returned, resumed, pendingCount, pending>>

\* queue.getPendingCount() settles: the length of what getQueuedCrud() read
\* in one of the iteration orders ords
GetPendingCount(ords) ==
    /\ \E ord \in ords : pendingCount' = <<Len(getQueuedCrud(ord, DefaultLimit))>>
    /\ UNCHANGED <<clock, procAll, pullVars, storeVars, provVars, logVars, appSubs, invoked, returned, resumed, pending>>

\* queue.hasPending() settles: whether getQueuedCrud(1) read an entry in one
\* of the iteration orders ords
HasPending(ords) ==
    /\ \E ord \in ords : pending' = <<Len(getQueuedCrud(ord, 1)) > 0>>
    /\ UNCHANGED <<clock, procAll, pullVars, storeVars, provVars, logVars, appSubs, invoked, returned, resumed, pendingCount>>

\* A processor with upload function c and batch size b that was not started,
\* beside a sync manager that was not started
Constructed(c, b) ==
    /\ clock = 1
    /\ listeners = {}
    /\ running = FALSE
    /\ abortCtl = "none"
    /\ connector = c
    /\ batchSize = b
    /\ pc = [l \in Loops |-> "idle"]
    /\ batch = [l \in Loops |-> Null]
    /\ retries = [l \in Loops |-> 0]
    /\ uploads = [l \in Loops |-> 0]
    /\ completes = [l \in Loops |-> 0]
    /\ cfails = [l \in Loops |-> 0]
    /\ first = [l \in Loops |-> Null]
    /\ passed = [l \in Loops |-> Null]
    /\ sent = [l \in Loops |-> <<>>]
    /\ manager = "trpc"
    /\ schema = DefaultSchema
    /\ tables = DefaultTables(schema)
    /\ SyncConstructed
    /\ ltable = {}
    /\ lastRows = <<>>
    /\ repeated = FALSE
    /\ spc = "idle"
    /\ sbatch = Null
    /\ syncError = FALSE

\* A queue constructed over an empty store, its processor, and an
\* application that awaits its enqueue calls
QueueInit ==
    /\ Constructed("trpc", MaxBatchSize)
    /\ nextId = 1
    /\ store = {}
    /\ appSubs = {}
    /\ invoked = [a \in AppListeners |-> 0]
    /\ returned = NoCall
    /\ resumed = {}
    /\ observed = {"enqueue"}
    /\ backendLog = <<>>
    /\ pendingCount = <<>>
    /\ pending = <<>>

\* The queue used by an application and one run of the processor
QueueNext ==
    \/ Tick
    \/ \E t \in Tables, ok \in BOOLEAN : Enqueue(t, ok)
    \/ \E a \in AppListeners : Subscribe(a)
    \/ \E a \in AppListeners : Unsubscribe(a)
    \/ GetPendingCount(IterateOrders(store))
    \/ HasPending(IterateOrders(store))
    \/ Start
    \/ \E l \in Loops : GetQueuedCrudSettle(l, TRUE)
    \/ \E l \in Loops : GetBatchReturn(l)
    \/ \E l \in Loops : WaitTimeout(l)
    \/ \E l \in Loops, ok \in BOOLEAN : UploadReturn(l, ok)
    \/ \E l \in Loops : ConnCompleteReturn(l, Len(batch[l]))
    \/ \E l \in Loops : CompleteReturn(l, Len(batch[l]))
    \/ \E l \in Loops : BackoffDone(l)
    \/ \E l \in Loops : AbortReturn(l)
    \/ \E l \in Loops : SleepDone(l)

QueueSpec == QueueInit /\ [][QueueNext]_vars

\* The items of a queue whose keys are 1..n, in the order of their keys
KeyOrder(q) == [i \in 1..Cardinality(q) |-> CHOOSE e \in q : e.id = i]

\* A queue over a store that holds any number of entries of earlier sessions
CountInit ==
    /\ Constructed("plain", 1)
    /\ \E n \in 0..MaxQueued :
          /\ nextId = n + 1
          /\ store = {[id |-> i, table |-> "orders", timestamp |-> 1] : i \in 1..n}
    /\ appSubs = {}
    /\ invoked = [a \in AppListeners |-> 0]
    /\ returned = NoCall
    /\ resumed = {}
    /\ observed = {"enqueue"}
    /\ backendLog = <<>>
    /\ pendingCount = <<>>
    /\ pending = <<>>

\* A processor over an empty queue whose waitForNewEntries calls are observed
WaitInit ==
    /\ Constructed("plain", 1)
    /\ nextId = 1
    /\ store = {}
    /\ appSubs = {}
    /\ invoked = [a \in AppListeners |-> 0]
    /\ returned = NoCall
    /\ resumed = {}
    /\ observed = {"wait"}
    /\ backendLog = <<>>
    /\ pendingCount = <<>>
    /\ pending = <<>>

\* The processor started and stopped while entries are enqueued, every store
\* call and upload succeeding
WaitNext ==
    \/ Enqueue("orders", TRUE)
    \/ Start
    \/ Stop
    \/ \E l \in Loops : GetQueuedCrudSettle(l, TRUE)
    \/ \E l \in Loops : GetBatchReturn(l)
    \/ \E l \in Loops : WaitTimeout(l)
    \/ \E l \in Loops : UploadReturn(l, TRUE)
    \/ \E l \in Loops : CompleteReturn(l, Len(batch[l]))
    \/ \E l \in Loops : SleepDone(l)

WaitSpec == WaitInit /\ [][WaitNext]_vars

\* The read-only queries of the queue
CountNext ==
    \/ GetPendingCount({KeyOrder(store)})
    \/ HasPending({KeyOrder(store)})

CountSpec == CountInit /\ [][CountNext]_vars

\* The tables the application writes: a synced one, a local_only one and one
\* that is missing from the connector's schema
UploadTables == {"orders", "drafts", "notes"}

\* A processor whose upload function is the uploadData of a shipped
\* connector, the backend recording the mutation calls it receives
UploadInit ==
    /\ \E c \in Connectors : Constructed(c, MaxBatchSize)
    /\ nextId = 1
    /\ store = {}
    /\ appSubs = {}
    /\ invoked = [a \in AppListeners |-> 0]
    /\ returned = NoCall
    /\ resumed = {}
    /\ observed = {"upload"}
    /\ backendLog = <<>>
    /\ pendingCount = <<>>
    /\ pending = <<>>

\* Mutations of any table are enqueued and one run of the processor uploads them
UploadNext ==
    \/ \E t \in UploadTables : Enqueue(t, TRUE)
    \/ Start
    \/ \E l \in Loops : GetQueuedCrudSettle(l, TRUE)
    \/ \E l \in Loops : GetBatchReturn(l)
    \/ \E l \in Loops : WaitTimeout(l)
    \/ \E l \in Loops, ok \in BOOLEAN : UploadReturn(l, ok)
    \/ \E l \in Loops, k \in 0..MaxBatchSize : ConnCompleteReturn(l, k)
    \/ \E l \in Loops, k \in 0..MaxBatchSize : CompleteReturn(l, k)
    \/ \E l \in Loops : BackoffDone(l)
    \/ \E l \in Loops : AbortReturn(l)
    \/ \E l \in Loops : SleepDone(l)

UploadSpec == UploadInit /\ [][UploadNext]_vars

\* LucidProvider's sync() is called: it returns at once when the device is
\* not online, else it calls queue.getBatch()
Sync(isOnline) ==
    /\ spc = "idle"
    /\ spc' = IF isOnline THEN "getBatch" ELSE "idle"
    /\ UNCHANGED <<clock, procAll, pullVars, storeVars, appVars, logVars, sbatch, syncError>>

\* queue.getBatch() of sync() settles; ok is the outcome of
\* store.getQueuedCrud. With a batch connector.uploadData(batch) is called;
\* with none sync() reports success; a rejection reaches the catch block
SyncGetBatchSettle(ok) ==
    /\ spc = "getBatch"
    /\ IF ~ok
       THEN /\ spc' = "idle"
            /\ syncError' = TRUE
            /\ UNCHANGED sbatch
       ELSE \E ord \in IterateOrders(store) :
              IF getBatch(ord, DefaultLimit) = Null
              THEN /\ spc' = "idle"
                   /\ syncError' = FALSE
                   /\ UNCHANGED sbatch
              ELSE /\ spc' = "upload"
                   /\ sbatch' = getBatch(ord, DefaultLimit)
                   /\ UNCHANGED syncError
    /\ UNCHANGED <<clock, procAll, pullVars, storeVars, appVars, logVars>>

\* The mutation calls of connector.uploadData(batch), called by sync(), are
\* over: the first k entries that are not skipped were sent. When one failed
\* uploadData rejects into the catch block of sync(). Else the tRPC uploadData
\* calls batch.complete(); another upload function returns and sync() reports
\* success
SyncUploadSettle(k) ==
    /\ spc = "upload"
    /\ k \in 0..Len(Sendable(sbatch))
    /\ Logged(Sent(Ids(Sendable(sbatch)), k))
    /\ IF k < Len(Sendable(sbatch))
       THEN /\ spc' = "idle"
            /\ sbatch' = Null
            /\ syncError' = TRUE
       ELSE IF connector = "trpc"
            THEN /\ spc' = "complete"
                 /\ UNCHANGED <<sbatch, syncError>>
            ELSE /\ spc' = "idle"
                 /\ sbatch' = Null
                 /\ syncError' = FALSE
    /\ UNCHANGED <<clock, procAll, pullVars, storeVars, appVars, observed>>

\* batch.complete() called inside the tRPC uploadData, called by sync(),
\* settles after removing k ids: it notifies the listeners and sync() reports
\* success, or it rejects into the catch block of sync()
SyncCompleteSettle(k) ==
    /\ spc = "complete"
    /\ k \in 0..Len(sbatch)
    /\ store' = complete(store, sbatch, k)
    /\ spc' = "idle"
    /\ sbatch' = Null
    /\ IF k = Len(sbatch)
       THEN /\ pc' = Woken(pc)
            /\ listeners' = {}
            /\ resumed' = Resumed(listeners, "notified")
            /\ invoked' = Invoked(invoked, appSubs)
            /\ syncError' = FALSE
       ELSE /\ syncError' = TRUE
            /\ UNCHANGED <<pc, listeners, invoked, resumed>>
    /\ UNCHANGED <<clock, nextId, procVars, batch, retries, histVars>>
    /\ UNCHANGED <<pullVars, storeVars, logVars, appSubs, returned, pendingCount, pending>>

\* A LucidProvider over an empty queue with a shipped connector; no
\* QueueProcessor is started
ProviderInit ==
    /\ \E c \in Connectors : Constructed(c, 1)
    /\ nextId = 1
    /\ store = {}
    /\ appSubs = {}
    /\ invoked = [a \in AppListeners |-> 0]
    /\ returned = NoCall
    /\ resumed = {}
    /\ observed = {"upload"}
    /\ backendLog = <<>>
    /\ pendingCount = <<>>
    /\ pending = <<>>

\* The application enqueues mutations and calls sync()
ProviderNext ==
    \/ Tick
    \/ \E t \in UploadTables : Enqueue(t, TRUE)
    \/ \E isOnline \in BOOLEAN : Sync(isOnline)
    \/ \E ok \in BOOLEAN : SyncGetBatchSettle(ok)
    \/ \E k \in 0..MaxEnqueue : SyncUploadSettle(k)
    \/ \E k \in 0..MaxEnqueue : SyncCompleteSettle(k)

ProviderSpec == ProviderInit /\ [][ProviderNext]_vars

\* The steps of loop l when every store call and every upload succeeds
Drain(l) ==
    \/ GetQueuedCrudSettle(l, TRUE)
    \/ GetBatchReturn(l)
    \/ WaitTimeout(l)
    \/ UploadReturn(l, TRUE)
    \/ ConnCompleteReturn(l, Len(batch[l]))
    \/ CompleteReturn(l, Len(batch[l]))
    \/ SleepDone(l)

\* The processor while uploads and store calls succeed
LiveNext ==
    \/ Tick
    \/ \E t \in Tables, ok \in BOOLEAN : Enqueue(t, ok)
    \/ Start
    \/ Stop
    \/ \E l \in Loops : Drain(l)

\* Promises that succeed settle and timers fire: a loop that can take a step
\* eventually takes one
LiveSpec == Init /\ [][LiveNext]_vars /\ \A l \in Loops : WF_vars(Drain(l))

----------------------------------------------------------------------------
(* Sync manager actions *)

SyncInit ==
    /\ clock = 1
    /\ nextId = 1
    /\ store = {}
    /\ listeners = {}
    /\ running = FALSE
    /\ abortCtl = "none"
    /\ connector = "plain"
    /\ batchSize = 1
    /\ pc = [l \in Loops |-> "idle"]
    /\ batch = [l \in Loops |-> Null]
    /\ retries = [l \in Loops |-> 0]
    /\ uploads = [l \in Loops |-> 0]
    /\ completes = [l \in Loops |-> 0]
    /\ cfails = [l \in Loops |-> 0]
    /\ first = [l \in Loops |-> Null]
    /\ passed = [l \in Loops |-> Null]
    /\ sent = [l \in Loops |-> <<>>]
    /\ manager \in Managers
    /\ schema = DefaultSchema
    /\ tables = DefaultTables(schema)
    /\ SyncConstructed
    /\ ApiIdle

\* start() subscribes to the tables of the list whose category is realtime
Subscribes(t) ==
    /\ \E j \in 1..Len(tables) : tables[j] = t
    /\ getTableCategory(t) = "realtime"

\* The rest of start() after the initial pass, for start() call h: setInterval
\* and the realtime subscriptions of the realtime tables
Schedule(h) ==
    /\ intervalId' = h
    /\ timers' = timers \cup {h}
    /\ subscriptions' =
          [t \in SyncTables |-> IF Subscribes(t) THEN h ELSE subscriptions[t]]
    /\ openSubs' = openSubs \cup {<<t, h>> : t \in {u \in SyncTables : Subscribes(u)}}

\* syncAll() begins a pass in slot p, awaited by start() call h (0: by none),
\* and runs to its first await, getLastSyncedAt of the first table that is
\* pulled (every list of tables here has one)
BeginPass(p, h) ==
    /\ ppc[p] = "idle"
    /\ \A q \in Passes : ppc[q] = "idle" => p <= q
    /\ ppc' = [ppc EXCEPT ![p] = "getLast"]
    /\ ptab' = [ptab EXCEPT ![p] = NextTable(0)]
    /\ pstart' = [pstart EXCEPT ![p] = h]
    /\ isSyncing' = IF manager = "trpc" THEN TRUE ELSE isSyncing
    /\ UNCHANGED <<psince, prows, pnow>>

\* The pass stays in its table and suspends on the next promise
StayInTable(p, point) ==
    /\ ppc' = [ppc EXCEPT ![p] = point]
    /\ UNCHANGED <<ptab, pstart, isSyncing, intervalId, timers, subscriptions, openSubs>>

\* syncTable of the pass's table has returned or thrown (the error is caught
\* in syncAll): the pass goes to the next table, or ends: the finally block
\* clears isSyncing, and a start() awaiting the pass goes on to schedule
LeaveTable(p) ==
    /\ psince' = [psince EXCEPT ![p] = 0]
    /\ prows' = [prows EXCEPT ![p] = {}]
    /\ pnow' = [pnow EXCEPT ![p] = 0]
    /\ IF pstart[p] # Direct /\ ~PassDone(p)
       THEN /\ ppc' = [ppc EXCEPT ![p] = "getLast"]
            /\ ptab' = [ptab EXCEPT ![p] = NextTable(@)]
            /\ UNCHANGED <<pstart, isSyncing, intervalId, timers, subscriptions, openSubs>>
       ELSE /\ ppc' = [ppc EXCEPT ![p] = "idle"]
            /\ ptab' = [ptab EXCEPT ![p] = 1]
            /\ pstart' = [pstart EXCEPT ![p] = 0]
            /\ isSyncing' = IF manager = "trpc" /\ pstart[p] # Direct THEN FALSE ELSE isSyncing
            /\ IF pstart[p] > 0
               THEN Schedule(pstart[p])
               ELSE UNCHANGED <<intervalId, timers, subscriptions, openSubs>>

\* start() of the sync manager: it awaits syncAll(), which begins a pass, or
\* returns at once when the guard skips it and start() goes on to schedule
SyncStart ==
    /\ nextStart <= MaxStarts
    /\ nextStart' = nextStart + 1
    /\ stopped' = FALSE
    /\ IF SkipSyncAll
       THEN /\ Schedule(nextStart)
            /\ UNCHANGED <<isSyncing, passVars>>
       ELSE /\ \E p \in Passes : BeginPass(p, nextStart)
            /\ UNCHANGED <<intervalId, timers, subscriptions, openSubs>>
    /\ UNCHANGED <<clock, procAll, apiVars, manager, schema, tables, rtVars, dataVars>>

\* stop() of the sync manager
SyncStop ==
    /\ intervalId' = 0
    /\ timers' = IF intervalId # 0 THEN timers \ {intervalId} ELSE timers
    /\ openSubs' = openSubs \ {<<t, subscriptions[t]>> : t \in SyncTables}
    /\ subscriptions' = [t \in SyncTables |-> 0]
    /\ stopped' = TRUE
    /\ UNCHANGED <<clock, procAll, apiVars, manager, schema, tables, rtVars, isSyncing, nextStart, passVars, dataVars>>

\* An active setInterval timer fires and calls syncAll()
TimerFire(h) ==
    /\ h \in timers
    /\ IF SkipSyncAll
       THEN UNCHANGED <<isSyncing, passVars>>
       ELSE \E p \in Passes : BeginPass(p, 0)
    /\ UNCHANGED <<clock, procAll, apiVars, manager, schema, tables, rtVars, intervalId, timers, subscriptions, openSubs,
                   nextStart, stopped, dataVars>>

\* The application calls syncAll() (forceSyncAll() of TrpcSyncManager)
ForceSyncAll ==
    /\ IF SkipSyncAll
       THEN UNCHANGED <<isSyncing, passVars>>
       ELSE \E p \in Passes : BeginPass(p, 0)
    /\ UNCHANGED <<clock, procAll, apiVars, manager, schema, tables, rtVars, intervalId, timers, subscriptions, openSubs,
                   nextStart, stopped, dataVars>>

\* forceSync(tableName), or a direct syncTable(tableName) call, for the ith
\* table of the list: syncTable runs to its first await, getLastSyncedAt, or
\* returns at once for a table it does not pull; isSyncing is neither read nor
\* written
ForceSync(i) ==
    /\ i \in 1..Len(tables)
    /\ IF ~Pulled(tables[i])
       THEN UNCHANGED <<isSyncing, passVars>>
       ELSE \E p \in Passes :
              /\ ppc[p] = "idle"
              /\ \A q \in Passes : ppc[q] = "idle" => p <= q
              /\ ppc' = [ppc EXCEPT ![p] = "getLast"]
              /\ ptab' = [ptab EXCEPT ![p] = i]
              /\ pstart' = [pstart EXCEPT ![p] = Direct]
              /\ UNCHANGED <<isSyncing, psince, prows, pnow>>
    /\ UNCHANGED <<clock, procAll, apiVars, manager, schema, tables, rtVars, intervalId, timers, subscriptions, openSubs,
                   nextStart, stopped, dataVars>>

\* store.getLastSyncedAt(table) settles; the fetch is then issued with it
GetLastSyncedAtSettle(p, ok) ==
    /\ ppc[p] = "getLast"
    /\ IF ok
       THEN /\ psince' = [psince EXCEPT ![p] = lastSyncedAt[TableOf(p)]]
            /\ StayInTable(p, "query")
            /\ UNCHANGED <<prows, pnow>>
       ELSE LeaveTable(p)
    /\ UNCHANGED <<clock, procAll, apiVars, manager, schema, tables, rtVars, nextStart, stopped, dataVars>>

\* The backend query, issued with the watermark read, settles; ok is FALSE
\* when it rejects, or when the tRPC procedure answers with no array and
\* fetchData returns at once. With rows upsertBatch is called; with none
\* setLastSyncedAt(table, Date.now()) is called at once
QuerySettle(p, ok) ==
    /\ ppc[p] = "query"
    /\ IF ok
       THEN LET rows == Query(backend[TableOf(p)], psince[p]) IN
            /\ prows' = [prows EXCEPT ![p] = rows]
            /\ UNCHANGED psince
            /\ StayInTable(p, AfterFetch(rows))
            /\ pnow' = [pnow EXCEPT ![p] = IF AfterFetch(rows) = "setLast" THEN DateNow ELSE @]
       ELSE LeaveTable(p)
    /\ UNCHANGED <<clock, procAll, apiVars, manager, schema, tables, rtVars, nextStart, stopped, dataVars>>

\* store.upsertBatch(table, rows) settles; when it resolved
\* setLastSyncedAt(table, Date.now()) is called
UpsertBatchSettle(p, ok) ==
    /\ ppc[p] = "upsert"
    /\ IF ok
       THEN /\ local' = [local EXCEPT ![TableOf(p)] = upsertBatch(@, prows[p])]
            /\ pnow' = [pnow EXCEPT ![p] = DateNow]
            /\ prows' = [prows EXCEPT ![p] = {}]
            /\ StayInTable(p, "setLast")
            /\ UNCHANGED psince
       ELSE /\ LeaveTable(p)
            /\ UNCHANGED local
    /\ UNCHANGED <<clock, procAll, apiVars, manager, schema, tables, rtVars, nextStart, stopped, backend, lastSyncedAt>>

\* store.setLastSyncedAt(table, now) settles
SetLastSyncedAtSettle(p, ok) ==
    /\ ppc[p] = "setLast"
    /\ lastSyncedAt' = IF ok THEN [lastSyncedAt EXCEPT ![TableOf(p)] = pnow[p]]
                       ELSE lastSyncedAt
    /\ LeaveTable(p)
    /\ UNCHANGED <<clock, procAll, apiVars, manager, schema, tables, rtVars, nextStart, stopped, backend, local>>

\* A row of a backend table is inserted or updated by another client
BackendUpdate(t, i) ==
    /\ backend' = [backend EXCEPT ![t] =
                      {r \in @ : r.id # i} \cup {[id |-> i, updated_at |-> clock]}]
    /\ backend' # backend
    /\ \E j \in 1..Len(tables) : tables[j] = t
    /\ UNCHANGED <<clock, procAll, apiVars, mgrVars, passVars, local, lastSyncedAt, rtVars>>

SyncNext ==
    \/ Tick
    \/ SyncStart
    \/ SyncStop
    \/ \E h \in 1..MaxStarts : TimerFire(h)
    \/ ForceSyncAll
    \/ \E p \in Passes, ok \in BOOLEAN : GetLastSyncedAtSettle(p, ok)
    \/ \E p \in Passes, ok \in BOOLEAN : QuerySettle(p, ok)
    \/ \E p \in Passes, ok \in BOOLEAN : UpsertBatchSettle(p, ok)
    \/ \E p \in Passes, ok \in BOOLEAN : SetLastSyncedAtSettle(p, ok)
    \/ \E t \in SyncTables, i \in RowIds : BackendUpdate(t, i)

SyncSpec == SyncInit /\ [][SyncNext]_vars

\* The pulls alone: syncAll() is called by the application, the manager is
\* never started
PullNext ==
    \/ Tick
    \/ ForceSyncAll
    \/ \E p \in Passes, ok \in BOOLEAN : GetLastSyncedAtSettle(p, ok)
    \/ \E p \in Passes, ok \in BOOLEAN : QuerySettle(p, ok)
    \/ \E p \in Passes, ok \in BOOLEAN : UpsertBatchSettle(p, ok)
    \/ \E p \in Passes, ok \in BOOLEAN : SetLastSyncedAtSettle(p, ok)
    \/ \E t \in SyncTables, i \in RowIds : BackendUpdate(t, i)

\* The kinds of change a realtime subscription reports
ChangeTypes == {"INSERT", "UPDATE", "DELETE"}

\* The number of realtime subscriptions open on table t
OpenOn(t) == Cardinality({h \in 1..MaxStarts : <<t, h>> \in openSubs})

\* n copies of change e
Copies(e, n) == [k \in 1..n |-> e]

\* Another client inserts, updates or deletes row i of backend table t; the
\* connector invokes the callback of every subscription open on t with the
\* change, and each callback runs to its await of the store call
BackendChange(t, i, type) ==
    /\ \E j \in 1..Len(tables) : tables[j] = t
    /\ type = "INSERT" <=> \A r \in backend[t] : r.id # i
    /\ Len(inbox[t]) + OpenOn(t) <= MaxEvents
    /\ LET row == [id |-> i, updated_at |-> clock] IN
       /\ backend' = [backend EXCEPT ![t] =
                         IF type = "DELETE" THEN delete(@, i) ELSE delete(@, i) \cup {row}]
       /\ inbox' = [inbox EXCEPT ![t] = @ \o Copies([type |-> type, record |-> row], OpenOn(t))]
    /\ backend' # backend
    /\ UNCHANGED <<clock, procAll, apiVars, mgrVars, passVars, local, lastSyncedAt, rejected, rtInPass>>

\* Mutant: a callback that upserts whatever the change is
ApplyChangeUpsert(tbl, e) == upsertBatch(tbl, {e.record})

\* The switch of the realtime callback: upsertBatch(table, [record]) for an
\* INSERT or UPDATE, delete(table, record.id) for a DELETE
ApplyChange(tbl, e) ==
    IF e.type = "DELETE" THEN delete(tbl, e.record.id) ELSE upsertBatch(tbl, {e.record})

\* Whether the realtime callback catches the error of its store call:
\* TrpcSyncManager wraps the switch in try/catch, SupabaseSyncManager does not
CallbackCatches == manager = "trpc"

\* The store call of the oldest suspended realtime callback of table t
\* settles; ok is its outcome
RealtimeSettle(t, ok) ==
    /\ inbox[t] # <<>>
    /\ inbox' = [inbox EXCEPT ![t] = Tail(@)]
    /\ IF ok
       THEN /\ local' = [local EXCEPT ![t] = ApplyChange(@, Head(inbox[t]))]
            /\ rtInPass' = (rtInPass \/ ActivePasses # {})
            /\ UNCHANGED rejected
       ELSE /\ rejected' = (rejected \/ ~CallbackCatches)
            /\ UNCHANGED <<local, rtInPass>>
    /\ UNCHANGED <<clock, procAll, apiVars, mgrVars, passVars, backend, lastSyncedAt>>

\* A started manager with its realtime subscriptions: the periodic passes and
\* the realtime callbacks run side by side
RealtimeNext ==
    \/ Tick
    \/ SyncStart
    \/ \E h \in 1..MaxStarts : TimerFire(h)
    \/ \E p \in Passes, ok \in BOOLEAN : GetLastSyncedAtSettle(p, ok)
    \/ \E p \in Passes, ok \in BOOLEAN : QuerySettle(p, ok)
    \/ \E p \in Passes, ok \in BOOLEAN : UpsertBatchSettle(p, ok)
    \/ \E p \in Passes, ok \in BOOLEAN : SetLastSyncedAtSettle(p, ok)
    \/ \E t \in SyncTables, i \in RowIds, type \in ChangeTypes : BackendChange(t, i, type)
    \/ \E t \in SyncTables, ok \in BOOLEAN : RealtimeSettle(t, ok)

\* A manager constructed for the realtime table alone
RealtimeInit ==
    /\ clock = 1
    /\ nextId = 1
    /\ store = {}
    /\ listeners = {}
    /\ running = FALSE
    /\ abortCtl = "none"
    /\ connector = "plain"
    /\ batchSize = 1
    /\ pc = [l \in Loops |-> "idle"]
    /\ batch = [l \in Loops |-> Null]
    /\ retries = [l \in Loops |-> 0]
    /\ uploads = [l \in Loops |-> 0]
    /\ completes = [l \in Loops |-> 0]
    /\ cfails = [l \in Loops |-> 0]
    /\ first = [l \in Loops |-> Null]
    /\ passed = [l \in Loops |-> Null]
    /\ sent = [l \in Loops |-> <<>>]
    /\ manager \in Managers
    /\ schema = DefaultSchema
    /\ tables = <<"tags">>
    /\ SyncConstructed
    /\ ApiIdle

RealtimeSpec == RealtimeInit /\ [][RealtimeNext]_vars

\* The primary keys of the rows other clients write and delete
PullIds == {1, 2}

\* Pulls of a table whose rows other clients insert, update and delete, with
\* and without a realtime subscription on it
DeleteNext ==
    \/ Tick
    \/ SyncStart
    \/ \E p \in Passes : GetLastSyncedAtSettle(p, TRUE)
    \/ \E p \in Passes : QuerySettle(p, TRUE)
    \/ \E p \in Passes : UpsertBatchSettle(p, TRUE)
    \/ \E p \in Passes : SetLastSyncedAtSettle(p, TRUE)
    \/ \E t \in SyncTables, i \in PullIds, type \in ChangeTypes : BackendChange(t, i, type)
    \/ \E t \in SyncTables : RealtimeSettle(t, TRUE)

DeleteSpec == RealtimeInit /\ [][DeleteNext]_vars

\* A manager constructed with or without options.tables, over either schema
PullInit ==
    /\ clock = 1
    /\ nextId = 1
    /\ store = {}
    /\ listeners = {}
    /\ running = FALSE
    /\ abortCtl = "none"
    /\ connector = "plain"
    /\ batchSize = 1
    /\ pc = [l \in Loops |-> "idle"]
    /\ batch = [l \in Loops |-> Null]
    /\ retries = [l \in Loops |-> 0]
    /\ uploads = [l \in Loops |-> 0]
    /\ completes = [l \in Loops |-> 0]
    /\ cfails = [l \in Loops |-> 0]
    /\ first = [l \in Loops |-> Null]
    /\ passed = [l \in Loops |-> Null]
    /\ sent = [l \in Loops |-> <<>>]
    /\ manager \in Managers
    /\ schema \in {DefaultSchema, StaticSchema}
    /\ tables \in {DefaultTables(schema), ExplicitTables}
    /\ SyncConstructed
    /\ ApiIdle

PullSpec == PullInit /\ [][PullNext]_vars

\* A TrpcSyncManager constructed with or without options.tables
ForceInit == PullInit /\ manager = "trpc"

\* The pulls of a TrpcSyncManager: syncAll passes and single-table calls
ForceNext ==
    \/ PullNext
    \/ \E i \in 1..Len(tables) : ForceSync(i)

ForceSpec == ForceInit /\ [][ForceNext]_vars

\* The primary keys of the rows written to the store table
StoreIds == {1, 2}

\* The lists of rows upsertBatch is called with: rows of distinct ids
RowLists ==
    {rows \in SUBSET [id : StoreIds, updated_at : 1..MaxClock] :
        \A a, b \in rows : a.id = b.id => a = b}

\* store.upsertBatch(table, rows) on the store table, settled
StoreUpsertBatch(rows) ==
    /\ ltable' = upsertBatchStamped(ltable, rows, DateNow)
    /\ lastRows' = <<rows>>
    /\ repeated' = (lastRows = <<rows>>)
    /\ UNCHANGED <<clock, procAll, pullVars, provVars, appVars, logVars>>

\* The store alone: upsertBatch calls on one table as time passes
StoreNext ==
    \/ Tick
    \/ \E rows \in RowLists : StoreUpsertBatch(rows)

StoreSpec == Init /\ [][StoreNext]_vars

----------------------------------------------------------------------------
(* Properties *)

Range(s) == {s[i] : i \in 1..Len(s)}

\* The loop's suspension points inside processBatch
InProcessBatch == {"upload", "connComplete", "complete", "backoff", "abort"}

\* batch.complete() resolved for loop l in this step
CompleteResolved(l) ==
    \/ pc[l] = "complete" /\ pc'[l] = "batchDelay"
    \/ pc[l] = "connComplete" /\ pc'[l] = "complete"

\* The loop issues a queue.getBatch() call in this step
GetBatchCalled(l) == pc[l] # "getBatch" /\ pc'[l] = "getBatch"

\* C1: a batch's entries are removed from the queue store if and only if
\* uploadFn returned successfully for that batch: entries leave the store only
\* in a step that follows a successful return, and once uploadFn has returned
\* successfully the loop's next step removes exactly the batch's entries,
\* without uploadFn being invoked again for them.
C1_RemovedIffDelivered ==
    [][ /\ (store' # store /\ store' \subseteq store)
            => \E l \in Loops : CompleteResolved(l)
        /\ \A l \in Loops :
            (pc[l] = "complete" /\ pc'[l] # "complete")
                => /\ pc'[l] = "batchDelay"
                   /\ store' = store \ Range(batch[l]) ]_vars

\* C2: when no attempt of a batch got as far as batch.complete() (the upload
\* function threw every time), processBatch has invoked uploadFn exactly
\* MaxRetries times when it calls batch.abort(), it then throws into start()'s
\* catch, and no step of the loop on that batch changes the queue store.
C2_RetryBound ==
    /\ [](\A l \in Loops :
            /\ uploads[l] <= MaxRetries
            /\ (pc[l] = "abort" /\ completes[l] = 0)
                  => (uploads[l] = MaxRetries /\ retries[l] = MaxRetries))
    /\ [][ \A l \in Loops :
            (pc[l] \in InProcessBatch /\ completes[l] = 0 /\ pc'[l] # pc[l])
                => /\ store' = store
                   /\ pc[l] = "abort" => pc'[l] \in {"errorPause", "idle"} ]_vars

\* C2 witness: a loop is pausing after an abort of a batch that never reached
\* complete(), and the batch's entries are all still queued.
C2_Witness ==
    \E l \in Loops :
        /\ pc[l] = "errorPause"
        /\ retries[l] = MaxRetries
        /\ completes[l] = 0
        /\ batch[l] # Null
        /\ Range(batch[l]) \subseteq store

\* C3: when the upload function fails k < MaxRetries times and then succeeds
\* (and no storage call fails), uploadFn was invoked exactly k+1 times and
\* batch.complete() was called exactly once, for every upload function.
C3_CompleteOnce ==
    \A l \in Loops :
        (pc[l] = "batchDelay" /\ cfails[l] = 0)
            => (completes[l] = 1 /\ uploads[l] = retries[l] + 1)

\* C4: at most one uploadFn invocation is in flight in every reachable state.
C4_OneInFlight == Cardinality({l \in Loops : pc[l] \in InFlight}) <= 1

\* C5: a queue.getBatch() call is issued only while running is true, that is
\* never between a stop() and the next start(), whichever suspension point the
\* loop was in when stop() was called.
C5_NoFetchAfterStop ==
    [][ \A l \in Loops : GetBatchCalled(l) => running' ]_vars

\* C5 witness: stop() was called while one loop was in its inter-batch delay.
C5_Witness ==
    /\ ~running
    /\ abortCtl = "aborted"
    /\ \E l \in Loops : pc[l] = "batchDelay"

\* The entries of b are in non-decreasing timestamp order
NonDecreasing(b) ==
    \A i, j \in 1..Len(b) : i < j => b[i].timestamp <= b[j].timestamp

\* b holds the first min(n, pending) entries of q in timestamp order
IsOldestPrefix(b, q, n) ==
    /\ Len(b) = Min(n, Cardinality(q))
    /\ Range(b) \subseteq q
    /\ \A i, j \in 1..Len(b) : i # j => b[i] # b[j]
    /\ NonDecreasing(b)
    /\ \A e \in q \ Range(b) : \A i \in 1..Len(b) : b[i].timestamp <= e.timestamp

\* C6: for every queue content, every limit n >= 1 and every iteration order
\* of the store, getBatch(n) is null iff the queue is empty and otherwise
\* returns the first min(n, pending) entries in timestamp order; the getBatch
\* call of the processor obeys this at the moment it reads the store, leaves
\* the persisted queue unchanged, and the loop acts on what was read.
C6_GetBatch ==
    /\ [](\A n \in 1..MaxLimit : \A ord \in IterateOrders(store) :
            /\ getBatch(ord, n) = Null <=> store = {}
            /\ IsOldestPrefix(getBatch(ord, n), store, n))
    /\ [][ \A l \in Loops :
            /\ (pc[l] = "getBatch" /\ pc'[l] = "gotBatch")
                => /\ store' = store
                   /\ batch'[l] = Null <=> store = {}
                   /\ IsOldestPrefix(batch'[l], store, batchSize)
            /\ (pc[l] = "gotBatch" /\ pc'[l] # "gotBatch")
                => /\ store' = store
                   /\ batch'[l] = batch[l]
                   /\ pc'[l] = IF batch[l] = Null THEN "wait" ELSE "upload" ]_vars

\* C6 witness: a loop holds a batch of two entries of different tables and
\* different timestamps, cut by the limit from a longer queue or not.
C6_Witness ==
    \E l \in Loops :
        /\ pc[l] = "upload"
        /\ Len(batch[l]) = 2
        /\ batch[l][1].timestamp < batch[l][2].timestamp
        /\ batch[l][1].table # batch[l][2].table

\* C7: a batch.complete() that resolves leaves in the queue store exactly the
\* entries that were there and are not entries of the batch.
C7_CompleteExact ==
    [][ \A l \in Loops :
            CompleteResolved(l) => store' = store \ Range(batch[l]) ]_vars

\* C7 witness: complete() has resolved for a batch that getBatch returned
\* shorter than the limit, and an entry enqueued after that is still queued.
C7_Witness ==
    \E l \in Loops :
        /\ pc[l] = "batchDelay"
        /\ Len(batch[l]) < batchSize
        /\ \E e \in store : \A i \in 1..Len(batch[l]) : batch[l][i].id < e.id

\* C8: the step in which batch.abort() settles leaves the queue store and the
\* listener set unchanged and wakes no other loop.
C8_AbortFrame ==
    [][ \A l \in Loops :
            (pc[l] = "abort" /\ pc'[l] # "abort")
                => /\ store' = store
                   /\ listeners' = listeners
                   /\ \A k \in Loops \ {l} : pc'[k] = pc[k] ]_vars

\* C8 witness: abort() has settled for a batch whose entries are all queued.
C8_Witness ==
    \E l \in Loops :
        /\ pc[l] = "errorPause"
        /\ retries[l] = MaxRetries
        /\ batch[l] # Null
        /\ Range(batch[l]) \subseteq store

\* C9: delivery preserves enqueue order (ids are issued in enqueue order): in
\* every batch an earlier-enqueued entry precedes a later one, and no batch is
\* delivered while an entry enqueued before one of its entries is queued
\* outside it; also when timestamps are equal.
C9_EnqueueOrder ==
    \A l \in Loops :
        /\ \A i, j \in 1..Len(batch[l]) : i < j => batch[l][i].id < batch[l][j].id
        /\ pc[l] \in {"connComplete", "complete"}
              => \A a \in store : \A i \in 1..Len(batch[l]) :
                    a.id < batch[l][i].id => a \in Range(batch[l])

\* C10: every attempt of processBatch passes uploadFn the entries of the first
\* attempt.
C10_SameEntries ==
    \A l \in Loops : pc[l] \in InProcessBatch => passed[l] = first[l]

\* C10 witness: a retry is in flight while the queue holds an entry that is not
\* in the batch and that a new getBatch call would have returned with it.
C10_Witness ==
    \E l \in Loops :
        /\ pc[l] = "upload"
        /\ retries[l] >= 1
        /\ Len(batch[l]) < batchSize
        /\ \E e \in store : e \notin Range(batch[l])

\* The first n queued entries in enqueue order
FirstQueued(q, n) == {e \in q : Cardinality({a \in q : a.id < e.id}) < n}

\* C11: head-of-line blocking. A batch read by getBatch holds none but the
\* first batchSize queued entries in enqueue order, and an entry leaves the
\* queue only when every queued entry enqueued before it was part of the same
\* delivered batch: while the oldest queued entry is not delivered, nothing
\* enqueued after it is removed or reaches uploadFn from beyond the head.
C11_HeadOfLine ==
    [][ \A l \in Loops :
            /\ (pc[l] = "getBatch" /\ pc'[l] = "gotBatch")
                => Range(batch'[l]) \subseteq FirstQueued(store, batchSize)
            /\ (pc[l] \in {"connComplete", "complete"} /\ pc'[l] # pc[l])
                => \A f \in store \ store' : \A e \in store :
                      e.id < f.id => e \in Range(batch[l]) ]_vars

\* C12: when batch.abort() has settled after the retries are exhausted, the
\* error is caught in start(): running is not changed by any step of a loop,
\* the loop pauses unless stop() has aborted the signal, after the pause it
\* calls getBatch again if running is still true, and a loop ends only when
\* stop() has been called.
C12_ContinuesAfterExhaustion ==
    [][ \A l \in Loops :
            /\ (pc[l] # "idle" /\ pc'[l] # pc[l]) => running' = running
            /\ (pc[l] = "abort" /\ pc'[l] # "abort")
                => pc'[l] = IF abortCtl = "aborted" THEN "idle" ELSE "errorPause"
            /\ (pc[l] = "errorPause" /\ pc'[l] # "errorPause")
                => pc'[l] = IF running THEN "getBatch" ELSE "idle"
            /\ (pc[l] # "idle" /\ pc'[l] = "idle")
                => (~running \/ abortCtl = "aborted") ]_vars

\* C12 witness: a loop is pausing after the retries of its batch were
\* exhausted, and the processor is still running.
C12_Witness ==
    \E l \in Loops :
        /\ pc[l] = "errorPause"
        /\ retries[l] = MaxRetries
        /\ running
        /\ abortCtl = "fresh"

\* C14: a loop that resumes from the wait for new work, the inter-batch delay
\* or a retry backoff after stop() was called (running is false) starts no
\* uploadFn attempt and no getBatch call.
C14_StopAtSuspension ==
    [][ \A l \in Loops :
            (~running /\ pc[l] \in {"wait", "batchDelay", "backoff"} /\ pc'[l] # pc[l])
                => pc'[l] \notin {"upload", "getBatch"} ]_vars

\* C13: while uploads and store calls succeed, an entry that is queued while
\* the processor is running is eventually removed from the queue, or the
\* processor is stopped; also when the entry was enqueued between the loop's
\* read of an empty queue and the registration of its listener.
C13_Drains ==
    \A i \in 1..MaxEnqueue :
        (running /\ \E e \in store : e.id = i)
            ~> (~running \/ \A e \in store : e.id # i)

\* C13 witness: a loop waits with its listener registered while an entry is
\* queued: the entry's notification fired before the listener was registered.
C13_Witness ==
    \E l \in Loops :
        /\ running
        /\ pc[l] = "wait"
        /\ l \in listeners
        /\ store # {}

\* C15: in TrpcSyncManager at most one syncAll pass is in flight, isSyncing is
\* true exactly while a pass is in flight (it is cleared when the pass ends,
\* whatever failed), and a syncAll() call made while isSyncing is true begins
\* no pass and reads no table.
C15_TrpcOnePass ==
    /\ [](manager = "trpc" =>
            /\ Cardinality(ActivePasses) <= 1
            /\ isSyncing <=> ActivePasses # {})
    /\ [][ (manager = "trpc" /\ isSyncing) => ActivePasses' \subseteq ActivePasses ]_vars

\* C15 witness: a pass of TrpcSyncManager is in flight while a periodic timer
\* is active, so the timer fires into the pass.
C15_Witness ==
    /\ manager = "trpc"
    /\ isSyncing
    /\ timers # {}
    /\ \E p \in Passes : ppc[p] = "query"

\* C16: in SupabaseSyncManager two syncAll passes never run concurrently.
C16_SupabaseOnePass ==
    manager = "supabase" => Cardinality(ActivePasses) <= 1

\* C17: at most one periodic timer is active, at most one realtime
\* subscription per table is open, and every active timer and open
\* subscription is the one the manager holds the handle of, so that stop()
\* releases it.
C17_NoDoubleSchedule ==
    /\ Cardinality(timers) <= 1
    /\ timers \subseteq {intervalId}
    /\ \A t \in SyncTables : Cardinality({h \in 1..MaxStarts : <<t, h>> \in openSubs}) <= 1
    /\ \A s \in openSubs : subscriptions[s[1]] = s[2]

\* C18: from a stop() until the next start() call no periodic timer is
\* scheduled, no realtime subscription is open and no pass is begun by a
\* timer; a stop() of a manager that holds no handle changes nothing.
C18_StoppedIsQuiet ==
    /\ [](stopped => (timers = {} /\ openSubs = {}))
    /\ [][ (stopped /\ stopped' /\ intervalId = 0 /\ \A t \in SyncTables : subscriptions[t] = 0)
              => UNCHANGED <<timers, openSubs, intervalId, subscriptions>> ]_vars

\* C19: the persisted watermark of a table changes only when a
\* setLastSyncedAt call of a pull of that table settles, to the time the call
\* was given; a pull calls setLastSyncedAt only after its upsertBatch resolved
\* with the fetched rows in the local table, or after the fetch returned no
\* row; a step in which the fetch or upsertBatch fails leaves it unchanged.
C19_WatermarkAfterWrite ==
    [][ /\ \A t \in SyncTables :
              lastSyncedAt'[t] # lastSyncedAt[t]
                  => \E p \in Passes :
                        /\ ppc[p] = "setLast"
                        /\ TableOf(p) = t
                        /\ lastSyncedAt'[t] = pnow[p]
        /\ \A p \in Passes :
              /\ (ppc[p] # "setLast" /\ ppc'[p] = "setLast")
                    => \/ ppc[p] = "upsert" /\ prows[p] \subseteq local'[TableOf(p)]
                       \/ ppc[p] = "query" /\ Query(backend[TableOf(p)], psince[p]) = {}
              /\ (ppc[p] \in {"getLast", "query", "upsert"} /\ ppc'[p] # ppc[p])
                    => lastSyncedAt' = lastSyncedAt ]_vars

\* C19 witness: a pull has written rows to the local table and its
\* setLastSyncedAt call is pending, the table having no watermark yet.
C19_Witness ==
    \E p \in Passes :
        /\ ppc[p] = "setLast"
        /\ local[TableOf(p)] # {}
        /\ local[TableOf(p)] = backend[TableOf(p)]
        /\ lastSyncedAt[TableOf(p)] = 0

\* C20: every backend row whose update time is at or before the table's
\* persisted watermark is in the local table.
C20_WatermarkCovered ==
    \A t \in SyncTables : \A r \in backend[t] :
        (lastSyncedAt[t] # 0 /\ r.updated_at <= lastSyncedAt[t]) => r \in local[t]

\* C21: the watermark a successful syncTable call writes is not below the
\* watermark that call read, so across successive calls it never decreases;
\* no watermark is ever ahead of the clock; and a pull step that fails before
\* setLastSyncedAt leaves every watermark unchanged.
C21_WatermarkMonotonic ==
    /\ [](\A t \in SyncTables : lastSyncedAt[t] <= clock)
    /\ [][ \A p \in Passes :
              /\ (ppc[p] = "setLast" /\ ppc'[p] # "setLast"
                    /\ lastSyncedAt'[TableOf(p)] # lastSyncedAt[TableOf(p)])
                    => /\ lastSyncedAt'[TableOf(p)] >= psince[p]
                       /\ lastSyncedAt'[TableOf(p)] > 0
              /\ (ppc[p] \in {"getLast", "query"} /\ ppc'[p] # ppc[p])
                    => lastSyncedAt' = lastSyncedAt ]_vars

\* C21 witness: a pull that read a watermark has taken a later time and its
\* setLastSyncedAt call is pending.
C21_Witness ==
    \E p \in Passes :
        /\ ppc[p] = "setLast"
        /\ psince[p] # 0
        /\ pnow[p] > psince[p]

\* C22: the fetch of syncTable(t) is issued with the watermark stored for t
\* when the pull read it, and the rows it receives are the backend rows
\* updated after that watermark, or every backend row when none is stored.
C22_ScopedBySince ==
    [][ \A p \in Passes :
          /\ (ppc[p] = "getLast" /\ ppc'[p] = "query")
                => psince'[p] = lastSyncedAt[TableOf(p)]
          /\ (ppc[p] = "query" /\ ppc'[p] \in {"upsert", "setLast"})
                => /\ psince'[p] = psince[p]
                   /\ prows'[p] = {r \in backend[TableOf(p)] :
                                      psince[p] = 0 \/ r.updated_at > psince[p]} ]_vars

\* C22 witness: a pull scoped by a stored watermark left an old backend row
\* out, and another pull with no watermark received a row.
C22_Witness ==
    /\ \E p \in Passes :
          /\ ppc[p] = "setLast"
          /\ psince[p] # 0
          /\ psince[p] = lastSyncedAt[TableOf(p)]
          /\ backend[TableOf(p)] # {}
          /\ \A r \in backend[TableOf(p)] : r.updated_at <= psince[p]
    /\ \E t \in SyncTables : lastSyncedAt[t] = 0 /\ local[t] # {}

\* C23: a fetch that succeeds with zero rows goes straight to setLastSyncedAt
\* with the time taken then, writes nothing to the local tables, and the
\* settled setLastSyncedAt stores that time for the pull's table and no other.
C23_EmptyFetchAdvances ==
    [][ \A p \in Passes :
          /\ (ppc[p] = "query" /\ ppc'[p] # "query" /\ ppc'[p] # "getLast"
                /\ ppc'[p] # "idle"
                /\ Query(backend[TableOf(p)], psince[p]) = {})
                => /\ ppc'[p] = "setLast"
                   /\ pnow'[p] = clock
                   /\ local' = local
          /\ (ppc[p] = "setLast" /\ ppc'[p] # "setLast" /\ lastSyncedAt' # lastSyncedAt)
                => /\ lastSyncedAt' = [lastSyncedAt EXCEPT ![TableOf(p)] = pnow[p]]
                   /\ local' = local ]_vars

\* C23 witness: a table whose backend and local copies are empty has a
\* watermark.
C23_Witness ==
    \E t \in SyncTables :
        /\ backend[t] = {}
        /\ local[t] = {}
        /\ lastSyncedAt[t] # 0

\* The order of the awaits of one syncTable call
Stage(point) ==
    CASE point = "getLast" -> 1
      [] point = "query" -> 2
      [] point = "upsert" -> 3
      [] point = "setLast" -> 4
      [] OTHER -> 0

\* C24: a pass attempts the syncable tables of its list one after the other,
\* each once and in list order, and ends only after the last of them, whatever
\* the attempts' outcomes; a step of a pass changes rows and watermark of the
\* pass's table only; an attempt that fails before setLastSyncedAt changes no
\* row and no watermark; and the pass ends as a resolved syncAll, with
\* isSyncing cleared.
C24_EveryTableAttempted ==
    [][ \A p \in Passes :
          /\ (ppc[p] = "idle" /\ ppc'[p] # "idle")
                => /\ ppc'[p] = "getLast"
                   /\ \A j \in 1..(ptab'[p] - 1) : ~shouldSync(tables[j])
          /\ (ppc[p] # "idle" /\ ppc'[p] # "idle" /\ ptab'[p] # ptab[p])
                => /\ ppc'[p] = "getLast"
                   /\ ptab'[p] > ptab[p]
                   /\ \A j \in (ptab[p] + 1)..(ptab'[p] - 1) : ~shouldSync(tables[j])
          /\ (ppc[p] # "idle" /\ ppc'[p] # "idle" /\ ptab'[p] = ptab[p])
                => Stage(ppc'[p]) >= Stage(ppc[p])
          /\ (ppc[p] # "idle" /\ ppc'[p] = "idle")
                => /\ \A j \in (ptab[p] + 1)..Len(tables) : ~shouldSync(tables[j])
                   /\ manager = "trpc" => ~isSyncing'
          /\ (ppc[p] # "idle" /\ <<ppc'[p], ptab'[p]>> # <<ppc[p], ptab[p]>>)
                => \A t \in SyncTables \ {TableOf(p)} :
                      local'[t] = local[t] /\ lastSyncedAt'[t] = lastSyncedAt[t]
          /\ (ppc[p] \in {"getLast", "query", "upsert"}
                /\ (ptab'[p] # ptab[p] \/ ppc'[p] = "idle"))
                => local' = local /\ lastSyncedAt' = lastSyncedAt ]_vars

\* C24 witness: the only pass in flight is writing the watermark of the
\* second table of its list after its attempt on the first one failed.
C24_Witness ==
    \E p \in Passes :
        /\ ppc[p] = "setLast"
        /\ ptab[p] = 2
        /\ shouldSync(tables[1])
        /\ lastSyncedAt[tables[1]] = 0
        /\ local[tables[1]] = {}
        /\ backend[tables[1]] # {}
        /\ \A q \in Passes \ {p} : ppc[q] = "idle"

\* C25: a table declared local_only is never fetched, upserted or given a
\* watermark: no pass is ever at such a table, and its local rows and its
\* watermark stay as constructed.
C25_LocalOnlyNeverPulled ==
    \A t \in SyncTables :
        ~shouldSync(t) =>
            /\ \A p \in Passes : ppc[p] # "idle" => TableOf(p) # t
            /\ local[t] = {}
            /\ lastSyncedAt[t] = 0

\* C26: a static table that was pulled once is not fetched again: no version
\* identifier reaches the sync manager, so none ever changes, and no pass has a
\* fetch in flight for a static table that already has a watermark.
C26_StaticFetchedOnce ==
    \A p \in Passes :
        (ppc[p] = "query" /\ getTableCategory(TableOf(p)) = "static") => psince[p] = 0

C28_CallbackErrorCaught == ~rejected

\* C29: the timer of a start() call is scheduled in the step that ends the
\* pass that call awaited, and with it a subscription of that call is open for
\* exactly the tables of the list whose category is realtime.
C29_StartSyncsFirst ==
    [][ \A h \in 1..MaxStarts :
          (h \in timers' /\ h \notin timers) =>
              /\ \E p \in Passes :
                    /\ pstart[p] = h
                    /\ ppc[p] # "idle"
                    /\ ppc'[p] = "idle"
              /\ \A t \in SyncTables :
                    <<t, h>> \in openSubs'
                        <=> /\ getTableCategory(t) = "realtime"
                            /\ \E j \in 1..Len(tables) : tables[j] = t ]_vars

\* C30: when a pull's upsertBatch and a realtime callback's store call are
\* pending on the same table with a row of the same primary key, the local
\* table ends the same whichever of the two settles first.
C30_WritesCommute ==
    \A p \in Passes :
        LET t == TableOf(p) IN
        (/\ ppc[p] = "upsert"
         /\ inbox[t] # <<>>
         /\ \E r \in prows[p] : r.id = Head(inbox[t]).record.id)
            => upsertBatch(ApplyChange(local[t], Head(inbox[t])), prows[p])
                 = ApplyChange(upsertBatch(local[t], prows[p]), Head(inbox[t]))

C32_EnqueueNeverSilent ==
    [][ /\ (returned' # returned /\ returned'.status = "rejected") =>
              /\ store' = store
              /\ nextId' = nextId
              /\ invoked' = invoked
              /\ listeners' = listeners
              /\ pc' = pc
        /\ (returned' # returned /\ returned'.status = "resolved") =>
              /\ \A e \in store : e.id # returned'.id
              /\ store' = store \cup {[id |-> returned'.id, table |-> returned'.table,
                                       timestamp |-> clock]}
        /\ (\E e \in store' : e \notin store) =>
              /\ returned' # returned
              /\ returned'.status = "resolved"
        /\ (invoked' # invoked /\ returned' # returned) =>
              \E e \in store' : e.id = returned'.id ]_vars

\* C32 witness: with both listeners subscribed one enqueue resolved and a
\* later one rejected, leaving one entry and one invocation of each listener.
C32_Witness ==
    /\ returned.status = "rejected"
    /\ Cardinality(store) = 1
    /\ appSubs = AppListeners
    /\ \A a \in AppListeners : invoked[a] = 1

\* C33: in every step each application callback is invoked once when it is
\* subscribed and the step is an enqueue that resolved or a batch.complete()
\* that resolved, and is not invoked otherwise (not once unsubscribed, not by
\* getBatch, abort, hasPending or getPendingCount).
C33_ListenersNotified ==
    [][ LET notifies ==
                \/ nextId' # nextId
                \/ \E l \in Loops :
                      \/ pc[l] = "connComplete" /\ pc'[l] = "complete"
                      \/ pc[l] = "complete" /\ pc'[l] = "batchDelay"
        IN  \A a \in AppListeners :
                invoked'[a] = IF a \in appSubs /\ notifies THEN invoked[a] + 1 ELSE invoked[a] ]_vars

\* C33 witness: after one enqueue, a listener still subscribed was invoked for
\* the enqueue and for a complete(), while one that unsubscribed in between
\* was invoked once.
C33_Witness ==
    /\ nextId = 2
    /\ invoked["a"] >= 2
    /\ invoked["b"] = 1
    /\ "b" \notin appSubs

\* C34: getPendingCount returned the number of entries in the queue, and
\* hasPending returned whether that number is greater than 0.
C34_PendingCountExact ==
    /\ pendingCount # <<>> => pendingCount[1] = Cardinality(store)
    /\ pending # <<>> => pending[1] = (Cardinality(store) > 0)

\* C40: the waitForNewEntries callback of a loop is registered exactly while
\* the loop is suspended in waitForNewEntries.
C40_NoListenerLeft ==
    \A l \in Loops : l \in listeners <=> pc[l] = "wait"

\* C40 witness: waitForNewEntries calls have resolved by the timeout and by a
\* notification, a loop is running, and no callback is registered.
C40_Witness ==
    /\ resumed = {"timeout", "notified"}
    /\ listeners = {}
    /\ \E l \in Loops : pc[l] = "getBatch"

\* C35 as stated: an entry leaves the queue only in a complete() of a loop
\* whose latest uploadData call made a successful mutation call for it.
C35_RemovedOnlyIfSent ==
    [][ \A e \in store : e \notin store' =>
            \E l \in Loops :
                /\ pc[l] \in {"complete", "connComplete"}
                /\ \E i \in 1..Len(sent[l]) : sent[l][i] = e.id ]_vars

\* C35 amended: an entry leaves the queue only in a complete() of a loop that
\* holds it in its batch; when its table is in the connector's schema and not
\* local_only, the loop's latest uploadData call made a successful mutation
\* call for it; otherwise uploadData skipped it and no mutation call was ever
\* made for it.
C35_RemovedSentOrSkipped ==
    [][ \A e \in store : e \notin store' =>
            \E l \in Loops :
                /\ pc[l] \in {"complete", "connComplete"}
                /\ \E i \in 1..Len(batch[l]) : batch[l][i] = e
                /\ IF e.table \in DOMAIN ConnectorSchema /\ ConnectorSchema[e.table] # "local_only"
                   THEN \E i \in 1..Len(sent[l]) : sent[l][i] = e.id
                   ELSE \A i \in 1..Len(backendLog') : backendLog'[i] # e.id ]_vars

\* C35 witness: a batch of a synced entry and a skipped entry was uploaded at
\* the first attempt and completed: the queue is empty and the backend
\* received one mutation call.
C35_Witness ==
    /\ nextId = 3
    /\ store = {}
    /\ Len(backendLog) = 1
    /\ \E l \in Loops : pc[l] = "batchDelay" /\ Len(batch[l]) = 2 /\ Len(sent[l]) = 1

\* C36: an uploadData call makes its mutation calls in batch order for a
\* prefix of the entries it does not skip: all of them when it succeeds, and
\* those before the first failing one when it fails, in which case nothing is
\* removed from the queue; the attempt after the backoff is passed the whole
\* batch again. No other step reaches the backend.
C36_InOrderStopAtFailure ==
    [][ /\ \A l \in Loops :
              (pc[l] = "upload" /\ pc'[l] # "upload") =>
                  LET ids == Ids(Sendable(batch[l]))
                      n == Len(backendLog)
                  IN  /\ Len(backendLog') >= n
                      /\ SubSeq(backendLog', 1, n) = backendLog
                      /\ SubSeq(backendLog', n + 1, Len(backendLog')) = sent'[l]
                      /\ Len(sent'[l]) <= Len(ids)
                      /\ sent'[l] = SubSeq(ids, 1, Len(sent'[l]))
                      /\ pc'[l] \in {"backoff", "abort"} =>
                            /\ Len(sent'[l]) < Len(ids)
                            /\ store' = store
                      /\ pc'[l] \in {"complete", "connComplete"} => sent'[l] = ids
        /\ \A l \in Loops :
              (pc[l] = "backoff" /\ pc'[l] = "upload") => passed'[l] = batch[l]
        /\ (\A l \in Loops : pc[l] # "upload") => backendLog' = backendLog ]_vars

\* C36 witness: the second entry of a batch failed and the attempt after it
\* sent the first entry again: the backend applied the first entry twice.
C36_Witness ==
    \E l \in Loops :
        /\ Len(Sendable(batch[l])) = 2
        /\ pc[l] \in {"complete", "connComplete"}
        /\ backendLog = <<batch[l][1].id, batch[l][1].id, batch[l][2].id>>

\* C37: no two pulls of the same table are in flight at the same time in
\* TrpcSyncManager.
C37_OnePullPerTable ==
    \A p, q \in Passes :
        (p # q /\ ppc[p] # "idle" /\ ppc[q] # "idle") => TableOf(p) # TableOf(q)

\* C38: when a sync() call that uploaded a batch reports success, the entries
\* of the batch are no longer in the queue.
C38_SyncRemovesUploaded ==
    [][ (spc \in {"upload", "complete"} /\ spc' = "idle" /\ ~syncError') =>
            \A i \in 1..Len(sbatch) : sbatch[i] \notin store' ]_vars

\* C39: a row leaves the local store only when the store call of a realtime
\* callback for a DELETE of that row resolves; no step of a pull removes a row.
C39_PullNeverDeletes ==
    [][ \A t \in SyncTables : \A r \in local[t] :
            (\A n \in local'[t] : n.id # r.id) =>
                /\ inbox[t] # <<>>
                /\ Head(inbox[t]).type = "DELETE"
                /\ Head(inbox[t]).record.id = r.id
                /\ inbox'[t] = Tail(inbox[t])
                /\ ppc' = ppc ]_vars

\* C39 witness: a pull has written the watermark of the table after both rows
\* were pulled and one was deleted on the backend: the local store still has
\* the deleted row.
C39_Witness ==
    /\ lastSyncedAt["tags"] = MaxClock
    /\ {r.id : r \in backend["tags"]} = {2}
    /\ {r.id : r \in local["tags"]} = {1, 2}
    /\ \A r \in backend["tags"] : r \in local["tags"]
    /\ inbox["tags"] = <<>>
    /\ ActivePasses = {}

====
